---- MODULE Spec2Model ----
(***************************************************************************)
(* token_iterator (src/token_iterator.cpp): a cursor over the tokens of a  *)
(* libclang translation unit.  The lexer is the environment: a file        *)
(* buffer, the token extents in it, and clang_getToken as the oracle.      *)
(* Offsets are 0-based byte offsets; a source location is an offset of the *)
(* one file (operator-- does not work across files, line 115).             *)
(***************************************************************************)
EXTENDS Integers, Sequences, FiniteSets, TLC

\* Size in bytes of the files the translation units hold: of the files a single
\* cursor walks, and of the files two cursors are copied and moved over.
FileSize == 5
SmallFileSize == 3

Cursors == {"x", "y"}
\* CXTranslationUnit handles; NullTu is the nullptr of token_deleter().
TUs == {"tu1", "tu2"}
NullTu == "null"
\* CXToken* values: 0 is nullptr.  A cursor or a local of operator-- can hold
\* one each, so this many can be alive at once.
HandleIds == 1 .. (Cardinality(Cursors) + 2)
NoTok == [alive |-> FALSE, start |-> 0, end |-> 0, tu |-> NullTu]

VARIABLES
    file_size,    \* the size of the file (clang_getFileContents, line 137)
    file_buffer,  \* [0..file_size-1 -> {"w","c"}]: isspace(byte) or not
    tokens,       \* the lexer's tokens, in source order: <<[s, e], ...>>, extent [s, e)
    absent,       \* non-whitespace gap offsets where clang_getToken returns nullptr
    cur,          \* the token_iterator objects: [alive, m_tok, tu]
    heap,         \* the CXToken allocations: HandleIds -> [alive, start, end, tu]
    rs,           \* the frame of a running operator--
    halted,       \* "no", or the assert that stopped the program
    faults,       \* disposals that hit no live token or the wrong translation unit
    last          \* the operation that ran last, its operands and oracle queries

vars == <<file_size, file_buffer, tokens, absent, cur, heap, rs, halted, faults, last>>
world == <<file_size, file_buffer, tokens, absent>>

Offsets == 0 .. (file_size - 1)
\* std::isspace of the byte at offset o
\* (a test that takes no byte for whitespace, to test the scan claim against)
IsSpaceNever(o) == FALSE
IsSpace(o) == file_buffer[o] = "w"

----------------------------------------------------------------------------
(* The lexer.                                                               *)

TokIdx == 1 .. Len(tokens)
\* The index of the token covering offset o, or 0.
Covering(o) ==
    IF \E i \in TokIdx : tokens[i].s <= o /\ o < tokens[i].e
    THEN CHOOSE i \in TokIdx : tokens[i].s <= o /\ o < tokens[i].e
    ELSE 0
\* The index of the first token starting after offset o, or 0.
Following(o) ==
    IF \E i \in TokIdx : tokens[i].s > o
    THEN CHOOSE i \in TokIdx : tokens[i].s > o /\ \A j \in TokIdx : tokens[j].s > o => i <= j
    ELSE 0
GapOffsets == {o \in Offsets : Covering(o) = 0 /\ Following(o) # 0}

\* clang_getToken(tu, loc): the index of the token the lexer returns for the
\* location at offset o (0: nullptr).  It returns the token covering o; in a gap
\* it returns the token after the gap, or nothing where the lexer is silent.
TokenAt(o) ==
    IF o >= file_size THEN 0
    ELSE IF Covering(o) # 0 THEN Covering(o)
    ELSE IF o \in absent THEN 0
    ELSE Following(o)

\* clang_getRangeStart(clang_getTokenExtent(..)) of a handle of token i: the
\* first character of the token, or the end of the previous token (NOTE, line 63).
StartChoices(i) ==
    {tokens[i].s} \cup (IF i > 1 THEN {tokens[i - 1].e} ELSE {})

\* The tokens a file with these start/continue/gap labels has, in source order.
RECURSIVE TokensFrom(_, _)
TokensFrom(lab, o) ==
    IF o >= file_size THEN <<>>
    ELSE IF lab[o] = "B"
    THEN LET ends == {e \in (o + 1) .. file_size : \A k \in (o + 1) .. (e - 1) : lab[k] = "I"}
             e == CHOOSE e \in ends : (e = file_size \/ lab[e] # "I")
         IN  <<[s |-> o, e |-> e]>> \o TokensFrom(lab, e)
    ELSE TokensFrom(lab, o + 1)

\* A lexable file: a token starts and ends on a non-whitespace byte, and a
\* continuation byte continues a token.
WellLabelled(buf, lab) ==
    /\ \A o \in Offsets : lab[o] = "I" => (o > 0 /\ lab[o - 1] \in {"B", "I"})
    /\ \A o \in Offsets : lab[o] = "B" => buf[o] = "c"
    /\ \A o \in Offsets :
          (lab[o] \in {"B", "I"} /\ (o = file_size - 1 \/ lab[o + 1] # "I")) => buf[o] = "c"

----------------------------------------------------------------------------
(* The token store: clang_getToken allocates, clang_disposeTokens frees.    *)

FreeIds(h) == {id \in HandleIds : ~h[id].alive}
NewId(h) == CHOOSE id \in FreeIds(h) : \A j \in FreeIds(h) : id <= j

\* token_deleter::operator() (lines 37-42) on pointer p with deleter tu t.
\* (a deleter that frees nothing, to test the ownership claim against)
DisposeNothing(h, p) == h
DisposeHeap(h, p) == IF p = 0 THEN h ELSE [h EXCEPT ![p] = NoTok]
DisposeFaults(h, p, t) ==
    IF p = 0 THEN {}
    ELSE (IF ~h[p].alive THEN {"dead_token"} ELSE {})
         \cup (IF t = NullTu THEN {"null_tu"} ELSE {})
         \cup (IF h[p].alive /\ h[p].tu # t THEN {"wrong_tu"} ELSE {})

NullCursor == [alive |-> FALSE, m_tok |-> 0, tu |-> NullTu]
IsSentinel(c) == cur[c].m_tok = 0
\* extent() of cursor c (lines 58-61)
TokStart(c) == heap[cur[c].m_tok].start
TokEnd(c) == heap[cur[c].m_tok].end

NoFrame ==
    [pc |-> "idle", self |-> "-", curr_end |-> -1, offset |-> 0,
     candidate_tok |-> 0, candidate_end |-> -1, lo |-> 0, hi |-> 0, queries |-> <<>>]
Idle == halted = "no" /\ rs.pc = "idle"

\* The record of the operation that ran last.  shape, run and origin follow a
\* cursor from its construction at a token through consecutive steps.
NoOp ==
    [op |-> "none", dst |-> "-", src |-> "-", pre_dst |-> 0, pre_src |-> 0,
     pre_end |-> -1, queries |-> <<>>, shape |-> "other", origin |-> -1, run |-> 0,
     p |-> -1, cand_end |-> -1]

\* The files of n bytes and the lexers the program can be given.  At a
\* whitespace offset of a gap the lexer returns the following token; at any other
\* gap offset it may return nothing (absent).  operator-- asks about no
\* whitespace offset (lines 152-158, 179-182).
World(n) ==
    /\ file_size = n
    /\ file_buffer \in [Offsets -> {"w", "c"}]
    /\ \E lab \in [Offsets -> {"B", "I", "G"}] :
          /\ WellLabelled(file_buffer, lab)
          /\ tokens = TokensFrom(lab, 0)
    /\ Len(tokens) >= 1
    /\ absent \in SUBSET {o \in GapOffsets : ~IsSpace(o)}

\* Asked about the end location of a token, the lexer returns the next token
\* when one exists: what operator++ (line 105) asks of clang_getToken.
ForwardOracle == \A i \in TokIdx : i < Len(tokens) => TokenAt(tokens[i].e) = i + 1

NoWhitespace == \A o \in Offsets : ~IsSpace(o)

Start ==
    /\ cur = [c \in Cursors |-> NullCursor]
    /\ heap = [id \in HandleIds |-> NoTok]
    /\ rs = NoFrame
    /\ halted = "no"
    /\ faults = {}
    /\ last = NoOp

Init == World(FileSize) /\ ForwardOracle /\ Start
InitAnyOracle == World(FileSize) /\ Start
InitCursors == World(SmallFileSize) /\ ForwardOracle /\ NoWhitespace /\ Start

\* The outcomes of clang_getToken(t, location at offset o) on store h: the
\* pointer returned and the store after it.
GetToken(h, t, o) ==
    IF TokenAt(o) = 0 THEN {[p |-> 0, h |-> h]}
    ELSE {[p |-> NewId(h),
           h |-> [h EXCEPT ![NewId(h)] =
                    [alive |-> TRUE, start |-> st, end |-> tokens[TokenAt(o)].e, tu |-> t]]]
          : st \in StartChoices(TokenAt(o))}

\* clone() (lines 48-51): the outcomes, with the deleter's tu and the query made.
\* (a clone that duplicates the pointer, to test the copy claim against)
CloneAliased(s) ==
    {[p |-> cur[s].m_tok, h |-> heap, t |-> cur[s].tu, q |-> <<>>]}
Clone(s) ==
    IF cur[s].m_tok = 0 THEN {[p |-> 0, h |-> heap, t |-> NullTu, q |-> <<>>]}
    ELSE {[p |-> g.p, h |-> g.h, t |-> cur[s].tu, q |-> <<TokStart(s)>>]
          : g \in GetToken(heap, cur[s].tu, TokStart(s))}

\* token_iterator() (line 76): the end sentinel.
DefaultConstruct(c) ==
    /\ Idle /\ ~cur[c].alive
    /\ cur' = [cur EXCEPT ![c] = [alive |-> TRUE, m_tok |-> 0, tu |-> NullTu]]
    /\ last' = [NoOp EXCEPT !.op = "default", !.dst = c]
    /\ UNCHANGED <<world, heap, rs, halted, faults>>

\* token_iterator(tu, loc) (lines 78-80)
Construct(c, t, o) ==
    /\ Idle /\ ~cur[c].alive
    /\ \E g \in GetToken(heap, t, o) :
          /\ heap' = g.h
          /\ cur' = [cur EXCEPT ![c] = [alive |-> TRUE, m_tok |-> g.p, tu |-> t]]
          /\ last' = [NoOp EXCEPT !.op = "construct", !.dst = c, !.queries = <<o>>,
                        !.shape = IF g.p = 0 THEN "other" ELSE "fresh",
                        !.origin = IF g.p = 0 THEN -1 ELSE g.h[g.p].end]
    /\ UNCHANGED <<world, rs, halted, faults>>

\* std::move(other.m_tok) leaves the source empty (lines 83, 91); its deleter stays
\* (a move that leaves the source its pointer, to test the move claim against)
MovedFromKept(cs) == cs
MovedFrom(cs) == [cs EXCEPT !.m_tok = 0]

\* token_iterator(token_iterator &&other) (lines 82-84)
MoveConstruct(d, s) ==
    /\ Idle /\ ~cur[d].alive /\ cur[s].alive
    /\ cur' = [cur EXCEPT ![d] = [alive |-> TRUE, m_tok |-> cur[s].m_tok, tu |-> cur[s].tu],
                          ![s] = MovedFrom(@)]
    /\ last' = [NoOp EXCEPT !.op = "move_construct", !.dst = d, !.src = s,
                  !.pre_src = cur[s].m_tok]
    /\ UNCHANGED <<world, heap, rs, halted, faults>>

\* token_iterator(const token_iterator &other) (lines 86-88)
CopyConstruct(d, s) ==
    /\ Idle /\ ~cur[d].alive /\ cur[s].alive
    /\ \E g \in Clone(s) :
          /\ heap' = g.h
          /\ cur' = [cur EXCEPT ![d] = [alive |-> TRUE, m_tok |-> g.p, tu |-> g.t]]
          /\ last' = [NoOp EXCEPT !.op = "copy_construct", !.dst = d, !.src = s,
                        !.pre_src = cur[s].m_tok, !.queries = g.q,
                        !.pre_end = IF cur[s].m_tok = 0 THEN -1 ELSE TokEnd(s)]
    /\ UNCHANGED <<world, rs, halted, faults>>

\* operator=(token_iterator &&other) (lines 90-93): unique_ptr move assignment,
\* reset(other.release()) and then the deleter.
MoveAssign(d, s) ==
    /\ Idle /\ cur[d].alive /\ cur[s].alive
    /\ IF d = s
       THEN UNCHANGED <<cur, heap, faults>>
       ELSE /\ heap' = DisposeHeap(heap, cur[d].m_tok)
            /\ faults' = faults \cup DisposeFaults(heap, cur[d].m_tok, cur[d].tu)
            /\ cur' = [cur EXCEPT ![d] = [@ EXCEPT !.m_tok = cur[s].m_tok, !.tu = cur[s].tu],
                                  ![s] = MovedFrom(@)]
    /\ last' = [NoOp EXCEPT !.op = "move_assign", !.dst = d, !.src = s,
                  !.pre_dst = cur[d].m_tok, !.pre_src = cur[s].m_tok]
    /\ UNCHANGED <<world, rs, halted>>

\* operator=(const token_iterator &other) (lines 95-98): m_tok = other.clone()
CopyAssign(d, s) ==
    /\ Idle /\ cur[d].alive /\ cur[s].alive
    /\ \E g \in Clone(s) :
          /\ heap' = DisposeHeap(g.h, cur[d].m_tok)
          /\ faults' = faults \cup DisposeFaults(g.h, cur[d].m_tok, cur[d].tu)
          /\ cur' = [cur EXCEPT ![d] = [@ EXCEPT !.m_tok = g.p, !.tu = g.t]]
          /\ last' = [NoOp EXCEPT !.op = "copy_assign", !.dst = d, !.src = s,
                        !.pre_dst = cur[d].m_tok, !.pre_src = cur[s].m_tok,
                        !.queries = g.q,
                        !.pre_end = IF cur[s].m_tok = 0 THEN -1 ELSE TokEnd(s)]
    /\ UNCHANGED <<world, rs, halted>>

\* The walk of cursor c after one more step of kind k ("inc" or "dec").
WalkShape(c, k) ==
    IF last.dst # c \/ last.origin = -1 THEN "other"
    ELSE IF last.shape = "fresh" THEN k
    ELSE IF last.shape = k THEN k
    ELSE IF last.shape = "dec" /\ last.run = 1 /\ k = "inc" THEN "decinc"
    ELSE "other"
WalkOrigin(c, k) == IF WalkShape(c, k) = "other" THEN -1 ELSE last.origin
WalkRun(c, k) == IF WalkShape(c, k) = "other" THEN 0 ELSE last.run + 1

\* The location operator++ asks the lexer about: prev_end (lines 102-105)
\* (asking at the start location, or one past the end, to test the step claims against)
IncLocAtStart(c) == TokStart(c)
IncLocPastEnd(c) == TokEnd(c) + 1
IncLoc(c) == TokEnd(c)

\* assert(m_tok) on a sentinel (lines 101, 121, 251 and 256): the failed assert
\* stops the program at its line
\* (an assert that is compiled away, to test the sentinel claim against)
AssertIgnored(line) == "no"
AssertFails(line) == line

\* operator++() (lines 100-107)
Inc(c) ==
    /\ Idle /\ cur[c].alive
    /\ IF cur[c].m_tok = 0
       THEN /\ halted' = AssertFails("assert_101")
            /\ last' = [NoOp EXCEPT !.op = "inc", !.dst = c]
            /\ UNCHANGED <<cur, heap, faults>>
       ELSE /\ \E g \in GetToken(heap, cur[c].tu, IncLoc(c)) :
                  /\ heap' = DisposeHeap(g.h, cur[c].m_tok)
                  /\ faults' = faults \cup DisposeFaults(g.h, cur[c].m_tok, cur[c].tu)
                  /\ cur' = [cur EXCEPT ![c] = [@ EXCEPT !.m_tok = g.p]]
            /\ last' = [NoOp EXCEPT !.op = "inc", !.dst = c, !.pre_dst = cur[c].m_tok,
                          !.pre_end = TokEnd(c), !.queries = <<IncLoc(c)>>,
                          !.shape = WalkShape(c, "inc"), !.origin = WalkOrigin(c, "inc"),
                          !.run = WalkRun(c, "inc")]
            /\ UNCHANGED halted
    /\ UNCHANGED <<world, rs>>

\* operator*() and operator->() (lines 250-258)
Deref(c) ==
    /\ Idle /\ cur[c].alive
    /\ halted' = IF cur[c].m_tok = 0 THEN AssertFails("assert_251") ELSE halted
    /\ last' = IF cur[c].m_tok = 0 THEN [NoOp EXCEPT !.op = "deref", !.dst = c] ELSE last
    /\ UNCHANGED <<world, cur, heap, rs, faults>>

\* operator== (lines 260-266)
\* (an equality on start locations, to test the equality claim against)
OpEqByStart(a, b) ==
    IF (cur[a].m_tok # 0) # (cur[b].m_tok # 0) THEN FALSE
    ELSE IF cur[a].m_tok = 0 THEN TRUE
    ELSE cur[a].tu = cur[b].tu /\ TokStart(a) = TokStart(b)
OpEq(a, b) ==
    IF (cur[a].m_tok # 0) # (cur[b].m_tok # 0) THEN FALSE
    ELSE IF cur[a].m_tok = 0 THEN TRUE
    ELSE cur[a].tu = cur[b].tu /\ TokEnd(a) = TokEnd(b)

Compare(a, b) ==
    /\ Idle /\ cur[a].alive /\ cur[b].alive
    /\ OpEq(a, b) \in BOOLEAN
    /\ UNCHANGED vars

\* swap(lhs, rhs) (lines 275-277): std::swap of the unique_ptrs
Swap(a, b) ==
    /\ Idle /\ a # b /\ cur[a].alive /\ cur[b].alive
    /\ cur' = [cur EXCEPT ![a] = cur[b], ![b] = cur[a]]
    /\ last' = [NoOp EXCEPT !.op = "swap", !.dst = a, !.src = b,
                  !.pre_dst = cur[a].m_tok, !.pre_src = cur[b].m_tok]
    /\ UNCHANGED <<world, heap, rs, halted, faults>>

\* ~token_iterator(): unique_token's destructor runs token_deleter (lines 37-42)
Destroy(c) ==
    /\ Idle /\ cur[c].alive
    /\ heap' = DisposeHeap(heap, cur[c].m_tok)
    /\ faults' = faults \cup DisposeFaults(heap, cur[c].m_tok, cur[c].tu)
    /\ cur' = [cur EXCEPT ![c] = NullCursor]
    /\ last' = [NoOp EXCEPT !.op = "destroy", !.dst = c, !.pre_dst = cur[c].m_tok]
    /\ UNCHANGED <<world, rs, halted>>

\* operator--() (lines 117-145): the asserts and the locals before the scan
DecBegin(c) ==
    /\ Idle /\ cur[c].alive
    /\ IF cur[c].m_tok = 0
       THEN /\ halted' = AssertFails("assert_121")
            /\ last' = [NoOp EXCEPT !.op = "dec_begin", !.dst = c]
            /\ UNCHANGED rs
       ELSE /\ halted' = IF TokStart(c) = 0 THEN "assert_133"
                         ELSE IF TokStart(c) >= file_size THEN "assert_139"
                         ELSE halted
            /\ rs' = IF TokStart(c) = 0 \/ TokStart(c) >= file_size THEN rs
                     ELSE [NoFrame EXCEPT !.pc = "scan", !.self = c, !.curr_end = TokEnd(c),
                                          !.offset = TokStart(c)]
            /\ last' = [NoOp EXCEPT !.op = "dec_begin", !.dst = c,
                          !.pre_dst = cur[c].m_tok, !.pre_end = TokEnd(c),
                          !.shape = WalkShape(c, "dec"), !.origin = WalkOrigin(c, "dec"),
                          !.run = WalkRun(c, "dec")]
    /\ UNCHANGED <<world, cur, heap, faults>>

\* assert(offset > 0) at the head of the loop (line 149)
\* (the loop without its assert, to test the file-start claim against)
ScanAssertDropped(offset) == TRUE
ScanAssert(offset) == offset > 0

\* !clang_equalLocations(candidate_end, curr_end) (line 162): a new token is found
\* (a scan that takes any token as new, to test the reverse-step claims against)
FoundAnyToken(cand_end, curr_end) == TRUE
Found(cand_end, curr_end) == cand_end # curr_end

\* Step 1 (lines 148-170), one iteration of while (true).  --offset on the
\* unsigned offset 0 gives UINT_MAX, written -1, which is outside the span.
DecScan ==
    /\ halted = "no" /\ rs.pc = "scan"
    /\ IF ~ScanAssert(rs.offset)
       THEN /\ halted' = "assert_149"
            /\ UNCHANGED <<rs, heap, faults>>
       ELSE LET o == rs.offset - 1 IN
            IF o \notin Offsets
            THEN /\ halted' = "span_bounds"
                 /\ rs' = [rs EXCEPT !.offset = o]
                 /\ UNCHANGED <<heap, faults>>
            ELSE IF IsSpace(o)
            THEN /\ rs' = [rs EXCEPT !.offset = o]
                 /\ UNCHANGED <<halted, heap, faults>>
            ELSE /\ \E g \in GetToken(heap, cur[rs.self].tu, o) :
                       LET found == g.p # 0 /\ Found(g.h[g.p].end, rs.curr_end) IN
                       /\ heap' = DisposeHeap(g.h, rs.candidate_tok)
                       /\ faults' = faults
                                      \cup DisposeFaults(g.h, rs.candidate_tok, cur[rs.self].tu)
                       /\ rs' = [rs EXCEPT !.offset = o,
                                           !.candidate_tok = g.p,
                                           !.candidate_end = IF g.p # 0 THEN g.h[g.p].end ELSE @,
                                           !.queries = Append(@, o),
                                           !.pc = IF found THEN "trim" ELSE "scan"]
                 /\ UNCHANGED halted
    /\ UNCHANGED <<world, cur, last>>

\* The start of the trailing run of non-whitespace bytes of [0, p) (lines 179-182)
\* (a search over the whole prefix, to test the query counts against)
StrBeginWholePrefix(p) == 0
StrBegin(p) ==
    IF \E k \in 0 .. (p - 1) : IsSpace(k)
    THEN (CHOOSE k \in 0 .. (p - 1) : IsSpace(k) /\ \A j \in (k + 1) .. (p - 1) : ~IsSpace(j)) + 1
    ELSE 0

\* Step 2 (lines 173-184): search_span becomes [lo, hi)
DecTrim ==
    /\ halted = "no" /\ rs.pc = "trim"
    /\ rs' = [rs EXCEPT !.lo = StrBegin(rs.offset), !.hi = rs.offset,
                        !.pc = IF StrBegin(rs.offset) = rs.offset THEN "adopt" ELSE "probe"]
    /\ UNCHANGED <<world, cur, heap, halted, faults, last>>

\* clang_equalLocations(next_candidate_end, candidate_end) (line 200)
\* (a probe that takes any token, to test the candidate claim against)
SameEndAlways(next_end, cand_end) == TRUE
SameEnd(next_end, cand_end) == next_end = cand_end

\* search_span.size() / 2 into [lo, hi) (lines 224-226)
MidPos(lo, hi) == lo + ((hi - lo) \div 2)

\* search_span.first(mid_pos) (line 228): the end of the span kept to the left
\* (a span that keeps mid_pos, to test the termination claim against)
SpanFirstInclusive(mid) == mid + 1
SpanFirst(mid) == mid

\* consider_next_candidate(pos) (lines 192-209): the outcomes
ConsiderNextCandidate(pos) ==
    {IF g.p = 0
       THEN [ok |-> FALSE, h |-> g.h, cand |-> rs.candidate_tok, f |-> {}]
     ELSE IF ~SameEnd(g.h[g.p].end, rs.candidate_end)
       THEN [ok |-> FALSE, h |-> DisposeHeap(g.h, g.p), cand |-> rs.candidate_tok,
             f |-> DisposeFaults(g.h, g.p, cur[rs.self].tu)]
     ELSE [ok |-> TRUE, h |-> DisposeHeap(g.h, rs.candidate_tok), cand |-> g.p,
           f |-> DisposeFaults(g.h, rs.candidate_tok, cur[rs.self].tu)]
     : g \in GetToken(heap, cur[rs.self].tu, pos)}

\* The heuristic first probe (lines 211-217)
DecProbe ==
    /\ halted = "no" /\ rs.pc = "probe"
    /\ \E r \in ConsiderNextCandidate(rs.lo) :
          /\ heap' = r.h
          /\ faults' = faults \cup r.f
          /\ rs' = [rs EXCEPT !.candidate_tok = r.cand,
                              !.queries = Append(@, rs.lo),
                              !.lo = IF r.ok THEN @ ELSE @ + 1,
                              !.pc = IF r.ok THEN "adopt" ELSE "search"]
    /\ UNCHANGED <<world, cur, halted, last>>

\* The binary search (lines 223-235), one test of the loop condition
DecSearch ==
    /\ halted = "no" /\ rs.pc = "search"
    /\ IF rs.lo = rs.hi
       THEN /\ rs' = [rs EXCEPT !.pc = "adopt"]
            /\ UNCHANGED <<heap, faults>>
       ELSE LET mid == MidPos(rs.lo, rs.hi) IN
            \E r \in ConsiderNextCandidate(mid) :
               /\ heap' = r.h
               /\ faults' = faults \cup r.f
               /\ rs' = [rs EXCEPT !.candidate_tok = r.cand,
                                   !.queries = Append(@, mid),
                                   !.hi = IF r.ok THEN SpanFirst(mid) ELSE @,
                                   !.lo = IF r.ok THEN @ ELSE mid + 1]
    /\ UNCHANGED <<world, cur, halted, last>>

\* m_tok = std::move(candidate_tok); return *this (lines 240-241)
DecAdopt ==
    /\ halted = "no" /\ rs.pc = "adopt"
    /\ heap' = DisposeHeap(heap, cur[rs.self].m_tok)
    /\ faults' = faults \cup DisposeFaults(heap, cur[rs.self].m_tok, cur[rs.self].tu)
    /\ cur' = [cur EXCEPT ![rs.self] = [@ EXCEPT !.m_tok = rs.candidate_tok]]
    /\ last' = [last EXCEPT !.op = "dec", !.queries = rs.queries, !.p = rs.offset,
                            !.cand_end = rs.candidate_end]
    /\ rs' = NoFrame
    /\ UNCHANGED <<world, halted>>

Next ==
    \/ \E c \in {"x"}, t \in TUs, o \in 0 .. file_size : Construct(c, t, o)
    \/ \E c \in {"x"} : Inc(c)
    \/ \E c \in {"x"} : DecBegin(c)
    \/ DecScan
    \/ DecTrim
    \/ DecProbe
    \/ DecSearch
    \/ DecAdopt
    \/ \E c \in {"x"} : Destroy(c)

NextCursors ==
    \/ \E c \in Cursors : DefaultConstruct(c)
    \/ \E c \in Cursors, t \in TUs, o \in 0 .. file_size : Construct(c, t, o)
    \/ \E d, s \in Cursors : MoveConstruct(d, s)
    \/ \E d, s \in Cursors : CopyConstruct(d, s)
    \/ \E d, s \in Cursors : MoveAssign(d, s)
    \/ \E d, s \in Cursors : CopyAssign(d, s)
    \/ \E c \in Cursors : Inc(c)
    \/ \E c \in Cursors : DecBegin(c)
    \/ DecScan
    \/ DecTrim
    \/ DecProbe
    \/ DecSearch
    \/ DecAdopt
    \/ \E c \in Cursors : Deref(c)
    \/ \E a, b \in Cursors : Compare(a, b)
    \/ \E a, b \in Cursors : Swap(a, b)
    \/ \E c \in Cursors : Destroy(c)

Spec == Init /\ [][Next]_vars
SpecAnyOracle == InitAnyOracle /\ [][Next]_vars
SpecCursors == InitCursors /\ [][NextCursors]_vars

\* A forward traversal: a cursor is constructed and operator++ is applied to it
\* again and again
NextForward ==
    \/ \E t \in TUs, o \in 0 .. file_size : Construct("x", t, o)
    \/ Inc("x")
SpecForward == Init /\ [][NextForward]_vars /\ WF_vars(Inc("x"))

----------------------------------------------------------------------------
(* The same token sequence in a second file with more whitespace.           *)

MaxInsert == 2

\* The file and the lexer as one value
CurWorld == [size |-> file_size, buf |-> file_buffer, toks |-> tokens, absent |-> absent]

\* clang_getToken on the file W: TokenAt, Covering and Following with the file
\* as a parameter
CoveringIn(W, o) ==
    IF \E i \in DOMAIN W.toks : W.toks[i].s <= o /\ o < W.toks[i].e
    THEN CHOOSE i \in DOMAIN W.toks : W.toks[i].s <= o /\ o < W.toks[i].e
    ELSE 0
FollowingIn(W, o) ==
    IF \E i \in DOMAIN W.toks : W.toks[i].s > o
    THEN CHOOSE i \in DOMAIN W.toks :
             W.toks[i].s > o /\ \A j \in DOMAIN W.toks : W.toks[j].s > o => i <= j
    ELSE 0
TokenAtIn(W, o) ==
    IF o >= W.size THEN 0
    ELSE IF CoveringIn(W, o) # 0 THEN CoveringIn(W, o)
    ELSE IF o \in W.absent THEN 0
    ELSE FollowingIn(W, o)
StartChoicesIn(W, i) ==
    {W.toks[i].s} \cup (IF i > 1 THEN {W.toks[i - 1].e} ELSE {})

\* Step 1 of operator-- (lines 148-170) as a function of the file: the end
\* location of the candidate the scan from offset stops with, or -1 when the
\* assert of line 149 stops it.
RECURSIVE ScanFrom(_, _, _)
ScanFrom(W, offset, curr_end) ==
    IF ~ScanAssert(offset) THEN -1
    ELSE LET o == offset - 1 IN
         IF W.buf[o] = "w" THEN ScanFrom(W, o, curr_end)
         ELSE LET t == TokenAtIn(W, o) IN
              IF t # 0 /\ Found(W.toks[t].e, curr_end) THEN W.toks[t].e
              ELSE ScanFrom(W, o, curr_end)

\* The tokens of W a cursor on token i can be on after operator-- (0: the step
\* stopped on an assert), over the start locations its handle can report.
\* Step 2 (lines 173-237) keeps the end location of the candidate.
PrevIn(W, i) ==
    IF i = 0 THEN {0}
    ELSE {LET e == IF st = 0 \/ st >= W.size THEN -1 ELSE ScanFrom(W, st, W.toks[i].e)
          IN  IF \E j \in DOMAIN W.toks : W.toks[j].e = e
              THEN CHOOSE j \in DOMAIN W.toks : W.toks[j].e = e
              ELSE 0
          : st \in StartChoicesIn(W, i)}
\* ... and after n of them
RECURSIVE RevWalk(_, _, _)
RevWalk(W, I, n) ==
    IF n = 0 THEN I ELSE RevWalk(W, UNION {PrevIn(W, i) : i \in I}, n - 1)

\* The file W with one more whitespace byte at offset k
Widen(W, k) ==
    [size |-> W.size + 1,
     buf |-> [o \in 0 .. W.size |-> IF o < k THEN W.buf[o]
                                    ELSE IF o = k THEN "w" ELSE W.buf[o - 1]],
     toks |-> [i \in DOMAIN W.toks |->
                 IF W.toks[i].s >= k THEN [s |-> W.toks[i].s + 1, e |-> W.toks[i].e + 1]
                 ELSE W.toks[i]],
     absent |-> {o \in W.absent : o < k} \cup {o + 1 : o \in {a \in W.absent : a >= k}}]
\* The offsets between two tokens of W
Between(W) ==
    {k \in 0 .. W.size :
        \E i \in DOMAIN W.toks :
            (i + 1) \in DOMAIN W.toks /\ W.toks[i].e <= k /\ k <= W.toks[i + 1].s}
\* The files that have the tokens of W and up to n more whitespace bytes
\* between them
RECURSIVE Widenings(_, _)
Widenings(W, n) ==
    IF n = 0 THEN {W}
    ELSE {W} \cup UNION {Widenings(Widen(W, k), n - 1) : k \in Between(W)}

----------------------------------------------------------------------------
(* The claims.                                                              *)

\* The index of the token whose extent ends at e, or 0.
IdxOfEnd(e) ==
    IF \E i \in TokIdx : tokens[i].e = e
    THEN CHOOSE i \in TokIdx : tokens[i].e = e
    ELSE 0
Holds(c) == cur[c].m_tok # 0 /\ heap[cur[c].m_tok].alive
LiveIds == {id \in HandleIds : heap[id].alive}
Owners(id) ==
    Cardinality({c \in Cursors : cur[c].m_tok = id}) + (IF rs.candidate_tok = id THEN 1 ELSE 0)

\* C1: a completed operator-- on a cursor at token T leaves the cursor on the
\* token whose end is the greatest token end below T's end, in the same
\* translation unit, whatever the lexer answers in the gaps; and operator--
\* stops on an assert only when T is the first token of the file.
C1_ReverseStepFindsPrevious ==
    /\ last.op = "dec" =>
          LET i == IdxOfEnd(last.pre_end)
              c == last.dst
          IN  /\ i > 1
              /\ Holds(c)
              /\ TokEnd(c) = tokens[i - 1].e
              /\ heap[cur[c].m_tok].tu = cur[c].tu
    /\ (last.op = "dec_begin" /\ last.pre_dst # 0 /\ halted # "no") =>
          IdxOfEnd(last.pre_end) = 1
\* C1 witness: a reverse step completed after the lexer answered nullptr in the gap.
C1_Witness ==
    /\ last.op = "dec"
    /\ \E k \in 1 .. Len(last.queries) : last.queries[k] \in absent

\* C2: after j consecutive operator-- from a cursor constructed at token b the
\* cursor is on token b - j, and after j consecutive operator++ from a cursor
\* constructed at token a it is on token a + j, for every j along the way.
C2_WalkVisitsEveryToken ==
    /\ (last.op = "dec" /\ last.shape = "dec") =>
          LET b == IdxOfEnd(last.origin)
          IN  /\ b - last.run >= 1
              /\ Holds(last.dst)
              /\ TokEnd(last.dst) = tokens[b - last.run].e
    /\ (last.op = "inc" /\ last.shape = "inc" /\ last.pre_dst # 0) =>
          LET a == IdxOfEnd(last.origin)
          IN  /\ a >= 1
              /\ a + last.run <= Len(tokens) =>
                    (Holds(last.dst) /\ TokEnd(last.dst) = tokens[a + last.run].e)
\* C2 witness: two reverse steps in a row have completed.
C2_Witness == last.op = "dec" /\ last.shape = "dec" /\ last.run >= 2

\* C3: a cursor constructed at a token, stepped backward once and forward once,
\* is on the token it was constructed at.
C3_RoundTrip ==
    (last.op = "inc" /\ last.shape = "decinc") =>
        /\ Holds(last.dst)
        /\ TokEnd(last.dst) = last.origin
\* C3 witness: the round trip went over a gap between the two tokens.
C3_Witness ==
    /\ last.op = "inc" /\ last.shape = "decinc"
    /\ last.pre_end \in GapOffsets

\* C4 as stated: with k tokens between a and b, k reverse steps from b give a
\* and k forward steps from a give b.
C4_AsStated ==
    /\ (last.op = "dec" /\ last.shape = "dec") =>
          \A a \in TokIdx :
             (IdxOfEnd(last.origin) - a - 1 = last.run) =>
                 (Holds(last.dst) /\ TokEnd(last.dst) = tokens[a].e)
    /\ (last.op = "inc" /\ last.shape = "inc" /\ last.pre_dst # 0) =>
          \A b \in TokIdx :
             (b - IdxOfEnd(last.origin) - 1 = last.run) =>
                 (Holds(last.dst) /\ TokEnd(last.dst) = tokens[b].e)
\* C4 amended: with k tokens between a and b, k + 1 reverse steps from b give a
\* and k + 1 forward steps from a give b.
C4_InverseLaws ==
    \A k \in 0 .. Len(tokens) :
       /\ (last.op = "dec" /\ last.shape = "dec" /\ last.run = k + 1) =>
             \A a \in TokIdx :
                (IdxOfEnd(last.origin) - a - 1 = k) =>
                    (Holds(last.dst) /\ TokEnd(last.dst) = tokens[a].e)
       /\ (last.op = "inc" /\ last.shape = "inc" /\ last.pre_dst # 0 /\ last.run = k + 1) =>
             \A b \in TokIdx :
                (b - IdxOfEnd(last.origin) - 1 = k) =>
                    (Holds(last.dst) /\ TokEnd(last.dst) = tokens[b].e)
\* C4 witness: two forward steps from a, over one token, have reached b.
C4_Witness ==
    /\ last.op = "inc" /\ last.shape = "inc" /\ last.run = 2
    /\ Holds(last.dst)
    /\ IdxOfEnd(TokEnd(last.dst)) - IdxOfEnd(last.origin) - 1 = 1

\* C5: operator++ on a cursor at token T asks the lexer about T's end location
\* and leaves the cursor on the token after T, whose start is at or after T's end
\* and whose end is beyond it, or on the end sentinel exactly when T is the last
\* token.
C5_ForwardStepTakesNext ==
    (last.op = "inc" /\ last.pre_dst # 0) =>
        LET c == last.dst
            i == IdxOfEnd(last.pre_end)
        IN  /\ last.queries = <<last.pre_end>>
            /\ i >= 1
            /\ IF i < Len(tokens)
               THEN /\ Holds(c)
                    /\ TokEnd(c) = tokens[i + 1].e
                    /\ TokStart(c) >= last.pre_end
                    /\ TokEnd(c) > last.pre_end
               ELSE cur[c].m_tok = 0
\* C5 witness: the step asked about an offset in the gap after T and got the next token.
C5_Witness ==
    /\ last.op = "inc" /\ last.pre_dst # 0
    /\ Holds(last.dst)
    /\ last.pre_end \in GapOffsets

\* C6: operator== is true exactly when both cursors are end sentinels, or both
\* hold a token, of the same translation unit, with the same end location (the
\* same token of the file); the start locations of the handles play no part.
C6_Equality ==
    \A a, b \in Cursors :
       (cur[a].alive /\ cur[b].alive) =>
           /\ (cur[a].m_tok = 0 /\ cur[b].m_tok = 0) => OpEq(a, b)
           /\ ((cur[a].m_tok = 0) # (cur[b].m_tok = 0)) => ~OpEq(a, b)
           /\ (cur[a].m_tok # 0 /\ cur[b].m_tok # 0) =>
                 (OpEq(a, b) <=>
                     /\ heap[cur[a].m_tok].tu = heap[cur[b].m_tok].tu
                     /\ IdxOfEnd(heap[cur[a].m_tok].end) = IdxOfEnd(heap[cur[b].m_tok].end))
\* C6 witness: two cursors on one token whose handles report different starts are equal.
C6_Witness ==
    /\ halted = "no" /\ rs.pc = "idle"
    /\ Holds("x") /\ Holds("y")
    /\ TokStart("x") # TokStart("y")
    /\ OpEq("x", "y")

\* C7: the copy of a cursor compares equal to it; the copy of a cursor on a token
\* holds a token newly acquired from the lexer at the start location of the
\* original's token, not the original's handle; the copy of the end sentinel is
\* the end sentinel and asks the lexer nothing.
C7_Copy ==
    (last.op \in {"copy_construct", "copy_assign"}) =>
        LET d == last.dst
            s == last.src
        IN  /\ OpEq(d, s)
            /\ last.pre_src = 0 => (cur[d].m_tok = 0 /\ last.queries = <<>>)
            /\ last.pre_src # 0 =>
                  /\ Holds(d)
                  /\ cur[d].m_tok # last.pre_src
                  /\ (d # s) => (cur[d].m_tok # cur[s].m_tok /\ Holds(s))
                  /\ TokEnd(d) = last.pre_end
                  /\ heap[cur[d].m_tok].tu = cur[d].tu
                  /\ Len(last.queries) = 1
                  /\ TokenAt(last.queries[1]) = IdxOfEnd(last.pre_end)
                  /\ (d # s) => last.queries[1] = TokStart(s)
\* C7 witness: a copy re-queried the lexer at a start location in the gap before the token.
C7_Witness ==
    /\ last.op = "copy_assign" /\ last.pre_src # 0
    /\ last.queries[1] \in GapOffsets
    /\ last.dst # last.src

\* C8: every live token is held by exactly one cursor or local, every pointer held
\* is a live token of the holder's translation unit, no disposal hits a token
\* twice or with another translation unit, and with every cursor destroyed no
\* token is left.
C8_Ownership ==
    /\ faults = {}
    /\ \A id \in LiveIds : Owners(id) = 1
    /\ \A c \in Cursors :
          cur[c].m_tok # 0 => (heap[cur[c].m_tok].alive /\ heap[cur[c].m_tok].tu = cur[c].tu)
    /\ rs.candidate_tok # 0 =>
          (heap[rs.candidate_tok].alive /\ heap[rs.candidate_tok].tu = cur[rs.self].tu)
    /\ (\A c \in Cursors : ~cur[c].alive) => LiveIds = {}
\* C8 witness: both cursors and the candidate of a running reverse step hold a token each.
C8_Witness ==
    /\ rs.pc = "search" /\ rs.candidate_tok # 0
    /\ Holds("x") /\ Holds("y")
    /\ Cardinality(LiveIds) = 3

\* C9: after a move from cursor s into another cursor d, s is the end sentinel, d
\* holds the very handle s held, still alive, the live tokens are those the
\* cursors hold (none was acquired), and the one d held before a move assignment
\* is disposed.
C9_Move ==
    (last.op \in {"move_construct", "move_assign"} /\ last.dst # last.src) =>
        /\ cur[last.src].m_tok = 0
        /\ cur[last.dst].m_tok = last.pre_src
        /\ last.pre_src # 0 => heap[last.pre_src].alive
        /\ LiveIds = {cur[c].m_tok : c \in Cursors} \ {0}
        /\ last.queries = <<>>
        /\ faults = {}
        /\ (last.pre_dst # 0 /\ last.pre_dst # last.pre_src) => ~heap[last.pre_dst].alive
\* C9 witness: a move assignment replaced a token that d held.
C9_Witness ==
    /\ last.op = "move_assign" /\ last.dst # last.src
    /\ last.pre_dst # 0 /\ last.pre_src # 0

\* C10: operator-- on a cursor at the first token of its file never leaves the
\* scan of step 1 and never adopts a token, it can only stop on the offset
\* asserts; and the scan offset and every offset asked of the lexer stay inside
\* the file.
C10_ReverseStepAtFileStart ==
    /\ (rs.pc # "idle" /\ rs.curr_end = tokens[1].e) => rs.pc = "scan"
    /\ last.op = "dec" => last.pre_end # tokens[1].e
    /\ rs.pc # "idle" =>
          /\ rs.offset \in Offsets
          /\ \A k \in 1 .. Len(rs.queries) : rs.queries[k] \in Offsets
    /\ (last.op = "dec_begin" /\ last.pre_end = tokens[1].e /\ halted # "no") =>
          halted \in {"assert_133", "assert_149"}
\* C10 witness: the first token starts after offset 0, the scan asked the lexer
\* about the bytes before it and stopped on the assert at offset 0.
C10_Witness ==
    /\ halted = "assert_149"
    /\ rs.curr_end = tokens[1].e
    /\ Len(rs.queries) >= 1
\* C11: dereference, operator++ and operator-- on an end sentinel each stop the
\* program on the assert of their first line, and the step that stops it asks
\* the lexer nothing and acquires and disposes of nothing: the handles, the
\* cursors and the reverse-step frame are as they were.  None of the three
\* goes on from the sentinel.
C11_SentinelStops ==
    (last.op \in {"inc", "dec_begin", "deref"} /\ last.pre_dst = 0)
        => /\ cur[last.dst].alive /\ cur[last.dst].m_tok = 0
           /\ halted = (CASE last.op = "inc" -> "assert_101"
                           [] last.op = "dec_begin" -> "assert_121"
                           [] last.op = "deref" -> "assert_251")
           /\ last.queries = <<>>
           /\ rs = NoFrame
C11_SentinelStep ==
    \A c \in Cursors :
        (Idle /\ cur[c].alive /\ cur[c].m_tok = 0)
            => /\ Inc(c) => (halted' = "assert_101" /\ UNCHANGED <<cur, heap, faults, rs>>)
               /\ DecBegin(c) => (halted' = "assert_121" /\ UNCHANGED <<cur, heap, faults, rs>>)
               /\ Deref(c) => (halted' = "assert_251" /\ UNCHANGED <<cur, heap, faults, rs>>)
C11_SentinelMisuse == [](C11_SentinelStops) /\ [][C11_SentinelStep]_vars
\* A reverse step applied to a sentinel has stopped the program while the
\* other cursor holds a token.
C11_Witness ==
    /\ halted = "assert_121" /\ last.op = "dec_begin"
    /\ \E c \in Cursors : c # last.dst /\ Holds(c)

\* C12: in a file with the same tokens and more whitespace between them the
\* reverse walk goes through the tokens of the same indices: after the same
\* number of operator-- from token b it is on token a, and not before.  The
\* walk the program took in this file is the walk the scan function gives.
C12_WhitespaceInsensitive ==
    (last.op = "dec" /\ last.shape = "dec") =>
        LET b == IdxOfEnd(last.origin)
            a == IdxOfEnd(TokEnd(last.dst))
        IN  /\ a >= 1 /\ b >= 1
            /\ \A o \in Offsets : TokenAtIn(CurWorld, o) = TokenAt(o)
            /\ \A W \in Widenings(CurWorld, MaxInsert) :
                  /\ RevWalk(W, {b}, last.run) = {a}
                  /\ \A n \in 0 .. (last.run - 1) : a \notin RevWalk(W, {b}, n)
\* Two reverse steps in a row over a gap that has whitespace in it.
C12_Witness ==
    /\ last.op = "dec" /\ last.shape = "dec" /\ last.run = 2
    /\ \E k \in Between(CurWorld) : k < file_size /\ IsSpace(k)
    /\ Cardinality(Widenings(CurWorld, MaxInsert)) > 2

\* The queries of the reverse step that ran last: those of Step 1 are at the
\* offsets from the witness offset p up, those of Step 2 below p.
ScanQueries == {k \in 1 .. Len(last.queries) : last.queries[k] >= last.p}
SearchQueries == {k \in 1 .. Len(last.queries) : last.queries[k] < last.p}
\* Token a has no whitespace byte, follows a whitespace byte or the start of
\* the file, and only whitespace lies between it and token a + 1.
FastPath(a) ==
    /\ \A o \in tokens[a].s .. (tokens[a].e - 1) : ~IsSpace(o)
    /\ tokens[a].s = 0 \/ IsSpace(tokens[a].s - 1)
    /\ \A o \in tokens[a].e .. (tokens[a + 1].s - 1) : IsSpace(o)

\* C13: a reverse step from token i whose previous token is on the whitespace
\* fast path asks the lexer at most twice: once in Step 1 and at most once in
\* Step 2, however many whitespace bytes lie between the two tokens.
C13_FastPathQueries ==
    (last.op = "dec" /\ IdxOfEnd(last.pre_end) >= 2 /\ FastPath(IdxOfEnd(last.pre_end) - 1))
        => /\ Len(last.queries) <= 2
           /\ Cardinality(ScanQueries) = 1
           /\ Cardinality(SearchQueries) <= 1
\* A fast-path reverse step over two whitespace bytes that asked twice.
C13_Witness ==
    /\ last.op = "dec" /\ IdxOfEnd(last.pre_end) >= 2
    /\ FastPath(IdxOfEnd(last.pre_end) - 1)
    /\ LET i == IdxOfEnd(last.pre_end) IN tokens[i].s - tokens[i - 1].e >= 2
    /\ Len(last.queries) = 2

\* The offsets up to the witness offset p at which the lexer returns a token
\* that ends at cand_end, and the offset the adopted handle was returned for:
\* that of the last query of the step the lexer answered with such a token.
Hits == {q \in 0 .. last.p : TokenAt(q) # 0 /\ tokens[TokenAt(q)].e = last.cand_end}
AdoptedAt ==
    LET acc == {k \in 1 .. Len(last.queries) : last.queries[k] \in Hits}
    IN  last.queries[CHOOSE k \in acc : \A j \in acc : j <= k]

\* C14: the handle a reverse step adopts is the one the lexer returned for the
\* smallest offset q <= p whose token ends at cand_end, and when the first
\* probe at w is accepted the adopted token starts at w; for every token,
\* tokens with whitespace bytes in them included.
C14_AsStated ==
    last.op = "dec" =>
        LET w == StrBegin(last.p)
        IN  /\ AdoptedAt = CHOOSE q \in Hits : \A r \in Hits : q <= r
            /\ (w < last.p /\ w \in Hits) => tokens[IdxOfEnd(last.cand_end)].s = w

\* The lexer's answer at offset o is a token that does not end at e.
Differs(o, e) == TokenAt(o) # 0 /\ tokens[TokenAt(o)].e # e
\* The queries of the reverse step in progress made by Step 1
ScanSoFar == SelectSeq(rs.queries, LAMBDA q : q >= rs.offset)

RECURSIVE CeilLog2(_)
CeilLog2(n) == IF n <= 1 THEN 0 ELSE 1 + CeilLog2((n + 1) \div 2)

\* C16: every iteration of the binary search makes the span [lo, hi) strictly
\* shorter, so Step 2 ends; with w the start of the trailing non-whitespace run
\* of the prefix [0, p), Step 2 asks the lexer at most 1 + ceil(log2(p - w))
\* times when p > w and never when p = w.  A forward step asks exactly once.
C16_QueryBound ==
    /\ last.op = "dec" =>
          LET w == StrBegin(last.p)
          IN  IF last.p = w THEN SearchQueries = {}
              ELSE Cardinality(SearchQueries) <= 1 + CeilLog2(last.p - w)
    /\ (last.op = "inc" /\ last.pre_dst # 0) => Len(last.queries) = 1
    /\ rs.pc \in {"probe", "search", "adopt"} =>
          (0 <= rs.lo /\ rs.lo <= rs.hi /\ rs.hi <= rs.offset)
C16_SpanShrinks ==
    (halted = "no" /\ rs.pc = "search" /\ rs.lo < rs.hi)
        => /\ rs'.pc = "search"
           /\ rs.lo <= rs'.lo /\ rs'.hi <= rs.hi
           /\ rs'.hi - rs'.lo < rs.hi - rs.lo
           /\ Len(rs'.queries) = Len(rs.queries) + 1
C16_SearchTerminates == [](C16_QueryBound) /\ [][C16_SpanShrinks]_vars
\* A reverse step whose Step 2 asked three times over a span of three bytes.
C16_Witness ==
    /\ last.op = "dec" /\ last.p - StrBegin(last.p) = 3
    /\ Cardinality(SearchQueries) = 3

\* C17: a cursor on a token to which operator++ is applied again and again
\* becomes the end sentinel.  Every step from a token moves to a token that
\* ends further on or to the sentinel, without a failure; after j steps from
\* token a the cursor is on token a + j, and it is the sentinel exactly when
\* the tokens have run out.
C17_ForwardSteps ==
    (last.op = "inc" /\ last.pre_dst # 0) =>
        /\ halted = "no" /\ faults = {}
        /\ Holds(last.dst) => TokEnd(last.dst) > last.pre_end
        /\ last.shape = "inc" =>
              LET a == IdxOfEnd(last.origin)
              IN  /\ a >= 1
                  /\ IF a + last.run <= Len(tokens)
                     THEN Holds(last.dst) /\ TokEnd(last.dst) = tokens[a + last.run].e
                     ELSE cur[last.dst].m_tok = 0 /\ a + last.run = Len(tokens) + 1
C17_ForwardTraversal ==
    /\ [](C17_ForwardSteps)
    /\ Holds("x") ~> (cur["x"].alive /\ cur["x"].m_tok = 0)
\* A traversal from a token has gone over two more tokens and arrived at the
\* sentinel.
C17_Witness ==
    /\ last.op = "inc" /\ last.shape = "inc" /\ last.run = 3
    /\ cur["x"].alive /\ cur["x"].m_tok = 0 /\ halted = "no"

\* Step 1 of the reverse step in progress has ended.
AfterScan == rs.pc \in {"trim", "probe", "search", "adopt"}

\* C18: from the end of Step 1 to the adoption the candidate is a live handle
\* of the cursor's translation unit whose token ends at candidate_end, which
\* is not the end of the current token; a step of Step 2 leaves candidate_end
\* alone and replaces the candidate only by a handle whose token ends there;
\* the adoption gives the cursor the candidate, so the token held after the
\* reverse step ends at the candidate_end of Step 1.
C18_CandidateHeld ==
    /\ AfterScan =>
          /\ rs.candidate_tok # 0 /\ heap[rs.candidate_tok].alive
          /\ heap[rs.candidate_tok].end = rs.candidate_end
          /\ heap[rs.candidate_tok].tu = cur[rs.self].tu
          /\ rs.candidate_end # rs.curr_end
    /\ last.op = "dec" => (Holds(last.dst) /\ TokEnd(last.dst) = last.cand_end)
C18_CandidateStep ==
    AfterScan =>
        IF rs'.pc = "idle"
        THEN /\ cur'[rs.self].m_tok = rs.candidate_tok
             /\ heap'[rs.candidate_tok] = heap[rs.candidate_tok]
             /\ last'.cand_end = rs.candidate_end
        ELSE /\ rs'.candidate_end = rs.candidate_end
             /\ rs'.curr_end = rs.curr_end /\ rs'.offset = rs.offset
             /\ rs'.candidate_tok # rs.candidate_tok =>
                   (rs'.candidate_tok # 0 /\ heap'[rs'.candidate_tok].end = rs.candidate_end)
             /\ rs'.candidate_tok = rs.candidate_tok =>
                   heap'[rs.candidate_tok] = heap[rs.candidate_tok]
C18_CandidateInvariant == [](C18_CandidateHeld) /\ [][C18_CandidateStep]_vars
\* Step 2 is over after a probe that was turned down and a probe that
\* replaced the candidate.
C18_Witness ==
    /\ rs.pc = "adopt"
    /\ \E k \in 1 .. Len(rs.queries) :
          /\ rs.queries[k] < rs.offset
          /\ TokenAt(rs.queries[k]) # 0
          /\ tokens[TokenAt(rs.queries[k])].e = rs.candidate_end
    /\ \E k \in 1 .. Len(rs.queries) :
          /\ rs.queries[k] < rs.offset
          /\ TokenAt(rs.queries[k]) # 0
          /\ tokens[TokenAt(rs.queries[k])].e # rs.candidate_end

====
